---- MODULE Spec2Model ----
(***************************************************************************)
(* Model of the comms_champion message codec glue:                         *)
(*   - comms::util tuple traversals (Tuple.h),                             *)
(*   - comms_champion::MessageBase encode / decode / refresh / valid,      *)
(*   - field_wrapper::UnknownValueWrapperT get/setSerialisedValue.         *)
(* The comms field and message classes the glue calls (field read, write,  *)
(* length, valid, refresh; the message level read and write) are not part  *)
(* of the sources at hand and are modelled from the specification.         *)
(***************************************************************************)
EXTENDS Integers, Sequences, FiniteSets, TLC

\* ------------------------------------------------------------------ bounds

\* Number of fields of the modelled message.
NumFields == 2

\* Longest byte sequence handed to decode.
MaxData == 4

\* Longest byte sequence handed to an adapter's setSerialisedValue.
MaxValueLen == 2

\* Largest tuple handed to the traversal utilities.
MaxTupleSize == 3

\* Longest option list a bitmask field is declared with.
MaxOptions == 4
MaxPayload == 2

\* ------------------------------------------------------------- byte helpers

\* Byte values the inputs are drawn from (0x00 and 0x81).
ByteVals == {0, 129}

RECURSIVE Pow256(_)
Pow256(n) == IF n = 0 THEN 1 ELSE 256 * Pow256(n - 1)

\* All sequences over S of length 0..n.
SeqsUpTo(S, n) == UNION {[1..k -> S] : k \in 0..n}

\* Big-endian serialisation of v into len bytes.
ToBytes(v, len) == [j \in 1..len |-> (v \div Pow256(len - j)) % 256]

RECURSIVE FromBytes(_)
FromBytes(s) ==
    IF s = <<>> THEN 0
    ELSE 256 * FromBytes(SubSeq(s, 1, Len(s) - 1)) + s[Len(s)]

\* ------------------------------------------------------------- field model

ErrorStatus ==
    {"Success", "NotEnoughData", "InvalidMsgData", "ProtocolError", "BufferOverflow"}

\* Fixed serialised length of the field at (1-based) position i.
FieldLength(i) == IF i % 2 = 1 THEN 1 ELSE 2

\* Custom validator: the two-byte fields reject a set top bit.
FieldValid(i, v) == IF i % 2 = 1 THEN TRUE ELSE v < 128 * 256

\* Refresh normal form: the one-byte fields keep their top (reserved) bit clear.
FieldNormalise(i, v) == IF i % 2 = 1 THEN v % 128 ELSE v

\* Values a field can be given through its setter: what the byte values
\* compose to, and the normal forms of those.
FieldValues(i) ==
    LET raw == {FromBytes(s) : s \in [1..FieldLength(i) -> ByteVals]}
    IN  raw \cup {FieldNormalise(i, v) : v \in raw}

\* field.read(iter, size): avail is what iter points at, size the declared room.
\* Returns the status, the field's value after the call and the bytes consumed.
FieldRead(i, old, avail, size) ==
    IF size < FieldLength(i)
    THEN [es |-> "NotEnoughData", val |-> old, used |-> 0]
    ELSE LET v == FromBytes(SubSeq(avail, 1, FieldLength(i)))
         IN  IF FieldValid(i, v)
             THEN [es |-> "Success", val |-> v, used |-> FieldLength(i)]
             ELSE [es |-> "InvalidMsgData", val |-> old, used |-> FieldLength(i)]

\* field.write(iter, size): the status and the bytes emitted through iter.
FieldWrite(i, v, size) ==
    IF size < FieldLength(i)
    THEN [es |-> "BufferOverflow", out |-> <<>>]
    ELSE [es |-> "Success", out |-> ToBytes(v, FieldLength(i))]

\* The message's field tuple: one handle per field, in declared order.
FieldTuple == [i \in 1..NumFields |-> [idx |-> i]]

\* Default constructed message: every field holds 0.
DefaultVals == [i \in 1..NumFields |-> 0]

\* ------------------------------------------------------- traversal functors

\* Heterogeneous tuple elements used to exercise the traversals.
Elems == {[type |-> "u8", val |-> 1], [type |-> "u8", val |-> 2],
          [type |-> "u16", val |-> 3]}

Tuples == SeqsUpTo(Elems, MaxTupleSize)

Radix(type) == IF type = "u8" THEN 2 ELSE 3

\* What the arithmetic functors compute from (accumulated value, element).
FuncValue(id, a, e) ==
    CASE id = "Sub" -> a - e.val
      [] id = "Horner" -> a * Radix(e.type) + e.val
      [] id = "Concat" -> Append(a, e)

\* func(value, element) of the functors handed to tupleAccumulate.  A value
\* is a record: it carries what the functor returns together with the state
\* the functor reaches through the references it captured.
ApplyFunc(func, acc, e) ==
    CASE func.id \in {"Sub", "Horner", "Concat"} ->
            [val |-> FuncValue(func.id, acc.val, e), n |-> acc.n + 1]
      [] func.id = "FieldWriter" ->
            IF acc.es # "Success" THEN acc
            ELSE LET forced == func.outcome[e.idx]
                     w == IF forced # "Success"
                          THEN [es |-> forced, out |-> <<>>]
                          ELSE FieldWrite(e.idx, func.vals[e.idx], acc.size)
                 IN  [es |-> w.es,
                      out |-> acc.out \o w.out,
                      size |-> acc.size - Len(w.out),
                      events |-> Append(acc.events, [ev |-> "write", idx |-> e.idx]),
                      log |-> Append(acc.log, w.es)]
      [] func.id = "FieldReader" ->
            IF acc.es # "Success" THEN acc
            ELSE LET r == FieldRead(e.idx, acc.vals[e.idx],
                                    SubSeq(func.data, acc.pos + 1, Len(func.data)),
                                    acc.size)
                 IN  [es |-> r.es,
                      vals |-> [acc.vals EXCEPT ![e.idx] = r.val],
                      pos |-> acc.pos + r.used,
                      size |-> acc.size - r.used,
                      log |-> Append(acc.log, r.es)]
      [] func.id = "FieldValidityChecker" ->
            acc /\ FieldValid(e.idx, func.vals[e.idx])

\* --------------------------------------------------------------- Tuple.h

RECURSIVE TupleForEachHelper_Reversed(_, _, _)
TupleForEachHelper_Reversed(TRem, tuple, calls) ==
    IF TRem = 0 THEN calls
    ELSE LET Idx == TRem - 1
         IN  TupleForEachHelper_Reversed(TRem - 1, tuple, Append(calls, tuple[Idx + 1]))

\* details::TupleForEachHelper<TRem>::exec; func records each element it is
\* called with, calls is that record so far.
RECURSIVE TupleForEachHelper(_, _, _)
TupleForEachHelper(TRem, tuple, calls) ==
    IF TRem = 0 THEN calls
    ELSE LET TupleSize == Len(tuple)
             Idx == TupleSize - TRem
         IN  TupleForEachHelper(TRem - 1, tuple, Append(calls, tuple[Idx + 1]))

tupleForEach(tuple, calls) == TupleForEachHelper(Len(tuple), tuple, calls)

RECURSIVE TupleForEachWithIdxHelper_OneBased(_, _, _)
TupleForEachWithIdxHelper_OneBased(TRem, tuple, calls) ==
    IF TRem = 0 THEN calls
    ELSE LET TupleSize == Len(tuple)
             Idx == TupleSize - TRem
         IN  TupleForEachWithIdxHelper_OneBased(TRem - 1, tuple,
                 Append(calls, [elem |-> tuple[Idx + 1], idx |-> Idx + 1]))

\* details::TupleForEachWithIdxHelper<TRem>::exec; func records (element, idx).
RECURSIVE TupleForEachWithIdxHelper(_, _, _)
TupleForEachWithIdxHelper(TRem, tuple, calls) ==
    IF TRem = 0 THEN calls
    ELSE LET TupleSize == Len(tuple)
             Idx == TupleSize - TRem
         IN  TupleForEachWithIdxHelper(TRem - 1, tuple,
                 Append(calls, [elem |-> tuple[Idx + 1], idx |-> Idx]))

tupleForEachWithIdx(tuple, calls) ==
    TupleForEachWithIdxHelper(Len(tuple), tuple, calls)

RECURSIVE TupleAccumulateHelper_Reversed(_, _, _, _)
TupleAccumulateHelper_Reversed(TRem, tuple, value, func) ==
    IF TRem = 0 THEN value
    ELSE LET Idx == TRem - 1
         IN  TupleAccumulateHelper_Reversed(TRem - 1, tuple,
                 ApplyFunc(func, value, tuple[Idx + 1]), func)

\* details::TupleAccumulateHelper<TRem>::exec.
RECURSIVE TupleAccumulateHelper(_, _, _, _)
TupleAccumulateHelper(TRem, tuple, value, func) ==
    IF TRem = 0 THEN value
    ELSE LET TupleSize == Len(tuple)
             Idx == TupleSize - TRem
         IN  TupleAccumulateHelper(TRem - 1, tuple,
                 ApplyFunc(func, value, tuple[Idx + 1]), func)

tupleAccumulate(tuple, value, func) ==
    TupleAccumulateHelper(Len(tuple), tuple, value, func)

\* ------------------------------------------------- comms message (CommsBase)

\* std::vector<std::uint8_t>::max_size().
DataSeqMaxSize == 2147483647

WriteOutcomes == {"Success", "BufferOverflow"}

RECURSIVE SumFieldLength(_)
SumFieldLength(n) == IF n = 0 THEN 0 ELSE SumFieldLength(n - 1) + FieldLength(n)

\* CommsBase::length(): the serialised length of all fields.
CommsBase_length == SumFieldLength(NumFields)

\* CommsBase::write(iter, size): the fields are written in declared order and
\* the first status other than Success ends the writing.  outcome[i] is the
\* status the environment makes field i's write report ("Success": the field
\* writes as its contract says).
CommsBase_write(vals, size, outcome) ==
    tupleAccumulate(FieldTuple,
        [es |-> "Success", out |-> <<>>, size |-> size, events |-> <<>>, log |-> <<>>],
        [id |-> "FieldWriter", vals |-> vals, outcome |-> outcome])

\* CommsBase::read(iter, size): the fields are read in declared order and the
\* first status other than Success ends the reading.
CommsBase_read(vals, data, size) ==
    tupleAccumulate(FieldTuple,
        [es |-> "Success", vals |-> vals, pos |-> 0, size |-> size, log |-> <<>>],
        [id |-> "FieldReader", data |-> data])

\* CommsBase::valid(): every field reports valid.
CommsBase_valid(vals) ==
    tupleAccumulate(FieldTuple, TRUE, [id |-> "FieldValidityChecker", vals |-> vals])

\* CommsBase::refresh(): brings every field to its normal form and reports
\* whether anything changed.
CommsBase_refresh(vals) ==
    LET fresh == [i \in 1..NumFields |-> FieldNormalise(i, vals[i])]
    IN  [vals |-> fresh, changed |-> fresh # vals]

\* ----------------------------------------------------------- MessageBase.h

\* The iterator categories MessageBase supports for writing (its
\* static_assert in encodeDataImpl); the read iterator is a pointer.  The
\* first is the instantiation MessageBase.h itself selects.
Instantiations ==
    {[write |-> "output_iterator_tag", read |-> "UsePointerTag"],
     [write |-> "random_access_iterator_tag", read |-> "UsePointerTag"]}

\* Result of an encode call that ended in a failed assert().
Aborted == [returned |-> FALSE, data |-> <<>>, es |-> "none", events |-> <<>>, log |-> <<>>]

refreshMsgImpl(vals) == CommsBase_refresh(vals)

isValidImpl_CallsRefresh(vals) == ~CommsBase_refresh(vals).changed

isValidImpl(vals) == CommsBase_valid(vals)

encodeDataRandomAccess(vals, outcome, NDEBUG) ==
    LET length == CommsBase_length
        w == CommsBase_write(vals, length, outcome)
        buf == [j \in 1..length |-> IF j <= Len(w.out) THEN w.out[j] ELSE 0]
    IN  IF w.es # "Success"
        THEN IF ~NDEBUG THEN Aborted
             ELSE [returned |-> TRUE, data |-> <<>>, es |-> w.es,
                   events |-> w.events, log |-> w.log]
        ELSE [returned |-> TRUE, data |-> SubSeq(buf, 1, Len(w.out)), es |-> w.es,
              events |-> w.events, log |-> w.log]

encodeDataWithOutputIter(vals, outcome, NDEBUG) ==
    LET w == CommsBase_write(vals, DataSeqMaxSize, outcome)
    IN  IF w.es # "Success" /\ ~NDEBUG
        THEN Aborted
        ELSE [returned |-> TRUE, data |-> w.out, es |-> w.es,
              events |-> w.events, log |-> w.log]

encodeDataIntenal(Tag, vals, outcome, NDEBUG) ==
    IF Tag = "random_access_iterator_tag"
    THEN encodeDataRandomAccess(vals, outcome, NDEBUG)
    ELSE encodeDataWithOutputIter(vals, outcome, NDEBUG)

encodeDataImpl(Tag, vals, outcome, NDEBUG) ==
    encodeDataIntenal(Tag, vals, outcome, NDEBUG)

decodeDataRandomAccessWithIter_OnlyShort(vals, data, bufSize) ==
    LET r == CommsBase_read(vals, data, bufSize)
    IN  [returned |-> TRUE, ret |-> r.es # "NotEnoughData", vals |-> r.vals, log |-> r.log]

decodeDataRandomAccessWithIter(vals, data, bufSize) ==
    LET r == CommsBase_read(vals, data, bufSize)
    IN  [returned |-> TRUE, ret |-> r.es = "Success", vals |-> r.vals, log |-> r.log]

\* trap: whether the element access data[0] of an empty vector (undefined
\* behaviour, taken only to form the pointer) traps in this build.
decodeDataRandomAccessInternal(Tag, vals, data, trap) ==
    IF Tag = "UsePointerTag" /\ data = <<>> /\ trap
    THEN [returned |-> FALSE, ret |-> FALSE, vals |-> vals, log |-> <<>>]
    ELSE decodeDataRandomAccessWithIter(vals, data, Len(data))

decodeDataRandomAccess(Tag, vals, data, trap) ==
    decodeDataRandomAccessInternal(Tag, vals, data, trap)

decodeDataImpl(Tag, vals, data, trap) ==
    decodeDataRandomAccess(Tag, vals, data, trap)

\* --------------------------------------------------- UnknownValueWrapper.h

getSerialisedValueImpl_Resized(i, v) ==
    LET value == [j \in 1..FieldLength(i) |-> 0]
        w == FieldWrite(i, v, DataSeqMaxSize)
    IN  [data |-> value \o w.out, val |-> v]

getSerialisedValueImpl(i, v) ==
    LET value == <<>>
        w == FieldWrite(i, v, DataSeqMaxSize)
    IN  [data |-> value \o w.out, val |-> v]

setSerialisedValueImpl_OnlyShort(i, old, value) ==
    IF value = <<>>
    THEN [ret |-> FALSE, val |-> old, reads |-> 0, es |-> "none"]
    ELSE LET r == FieldRead(i, old, value, Len(value))
         IN  [ret |-> r.es # "NotEnoughData", val |-> r.val, reads |-> 1, es |-> r.es]

setSerialisedValueImpl_NoEmptyCheck(i, old, value) ==
    LET r == FieldRead(i, old, value, Len(value))
    IN  [ret |-> r.es = "Success", val |-> r.val, reads |-> 1, es |-> r.es]

setSerialisedValueImpl(i, old, value) ==
    IF value = <<>>
    THEN [ret |-> FALSE, val |-> old, reads |-> 0, es |-> "none"]
    ELSE LET r == FieldRead(i, old, value, Len(value))
         IN  [ret |-> r.es = "Success", val |-> r.val, reads |-> 1, es |-> r.es]

\* ------------------------------------------------------------------- state

VARIABLES
    inst,        \* the instantiation of MessageBase (iterator categories)
    NDEBUG,      \* whether assert() is compiled out
    fieldVals,   \* the message's field values
    dirty,       \* a field was assigned since the last refresh
    lastRefresh, \* what the last refresh returned: "none", "changed", "unchanged"
    call,        \* the last call on the message or on an adapter, and its outcome
    trav,        \* the last tuple traversal, its inputs and its outcome
    bitmask,     \* a bitmask field definition: its options, what they resolve to
    wrapper,     \* a BitfieldWrapperT instantiation and the adapter made from it
    plugin,      \* a Plugin object and the last call on it
    proto        \* a Protocol object: buffered bytes, the last read and its outcome

\* The state outside the message, its adapters and the traversals.
others == <<bitmask, wrapper, plugin, proto>>

vars == <<inst, NDEBUG, fieldVals, dirty, lastRefresh, call, trav, others>>

NoCall ==
    [op |-> "none", prevVals |-> DefaultVals, data |-> <<>>, idx |-> 0,
     outcome |-> <<>>, returned |-> TRUE, retBool |-> FALSE, retData |-> <<>>,
     es |-> "none", log |-> <<>>, events |-> <<>>, reads |-> 0]

NoTrav ==
    [op |-> "none", in |-> <<>>, fn |-> "none", init |-> [val |-> 0, n |-> 0],
     calls |-> <<>>, out |-> [val |-> 0, n |-> 0]]

NoBitmask == [op |-> "none", opts |-> <<>>]

NoWrapper == [op |-> "none"]

NoPlugin == [op |-> "none", m_ctrlInterface |-> 0, arg |-> 0, ret |-> 0,
             wasApplied |-> FALSE, applyImplSaw |-> FALSE, stored |-> 0,
             aborted |-> FALSE]

NoProto == [op |-> "none", buffer |-> <<>>, retained |-> <<>>, input |-> <<>>,
            msgs |-> <<>>, handled |-> <<>>]

\* Nothing outside the message, its adapters and the traversals is in use.
NoOthers ==
    /\ bitmask = NoBitmask
    /\ wrapper = NoWrapper
    /\ plugin = NoPlugin
    /\ proto = NoProto

DataSeqs == SeqsUpTo(ByteVals, MaxData)

ValueSeqs == SeqsUpTo(ByteVals, MaxValueLen)

ActualInstantiation == [write |-> "output_iterator_tag", read |-> "UsePointerTag"]

\* --------------------------------------------------------------- operations

\* Message::encodeData(): const, the fields are left alone.
Encode ==
    /\ call.returned
    /\ \E outcome \in [1..NumFields -> WriteOutcomes] :
         LET r == encodeDataImpl(inst.write, fieldVals, outcome, NDEBUG)
         IN  call' = [NoCall EXCEPT !.op = "encode", !.prevVals = fieldVals,
                         !.outcome = outcome, !.returned = r.returned,
                         !.retData = r.data, !.es = r.es, !.log = r.log,
                         !.events = r.events]
    /\ UNCHANGED <<inst, NDEBUG, fieldVals, dirty, lastRefresh, trav, others>>

\* Message::decodeData(data).
Decode ==
    /\ call.returned
    /\ \E data \in DataSeqs :
       \E trap \in IF data = <<>> THEN BOOLEAN ELSE {FALSE} :
         LET r == decodeDataImpl(inst.read, fieldVals, data, trap)
         IN  /\ call' = [NoCall EXCEPT !.op = "decode", !.data = data,
                            !.returned = r.returned, !.retBool = r.ret,
                            !.log = r.log]
             /\ fieldVals' = r.vals
             /\ dirty' = (dirty \/ \E k \in 1..Len(r.log) : r.log[k] = "Success")
    /\ UNCHANGED <<inst, NDEBUG, lastRefresh, trav, others>>

\* Message::refreshMsg().
Refresh ==
    /\ call.returned
    /\ LET r == refreshMsgImpl(fieldVals)
       IN  /\ call' = [NoCall EXCEPT !.op = "refresh", !.retBool = r.changed,
                          !.events = <<[ev |-> "refresh", idx |-> 0]>>]
           /\ fieldVals' = r.vals
           /\ lastRefresh' = IF r.changed THEN "changed" ELSE "unchanged"
    /\ dirty' = FALSE
    /\ UNCHANGED <<inst, NDEBUG, trav, others>>

\* Message::isValid().
IsValid ==
    /\ call.returned
    /\ call' = [NoCall EXCEPT !.op = "isValid", !.retBool = isValidImpl(fieldVals)]
    /\ UNCHANGED <<inst, NDEBUG, fieldVals, dirty, lastRefresh, trav, others>>

\* A field is assigned through its setter; no refresh is implied.
SetValue ==
    /\ call.returned
    /\ \E i \in 1..NumFields : \E v \in FieldValues(i) :
         /\ call' = [NoCall EXCEPT !.op = "setValue", !.idx = i]
         /\ fieldVals' = [fieldVals EXCEPT ![i] = v]
    /\ dirty' = TRUE
    /\ UNCHANGED <<inst, NDEBUG, lastRefresh, trav, others>>

\* An adapter is made over field i and asked for the serialised value.
GetSerialisedValue ==
    /\ call.returned
    /\ \E i \in 1..NumFields :
         LET r == getSerialisedValueImpl(i, fieldVals[i])
         IN  /\ call' = [NoCall EXCEPT !.op = "getSerialisedValue",
                            !.prevVals = fieldVals, !.idx = i, !.retData = r.data]
             /\ fieldVals' = [fieldVals EXCEPT ![i] = r.val]
    /\ UNCHANGED <<inst, NDEBUG, dirty, lastRefresh, trav, others>>

\* An adapter is made over field i and given a serialised value.
SetSerialisedValue ==
    /\ call.returned
    /\ \E i \in 1..NumFields, value \in ValueSeqs :
         LET r == setSerialisedValueImpl(i, fieldVals[i], value)
         IN  /\ call' = [NoCall EXCEPT !.op = "setSerialisedValue",
                            !.prevVals = fieldVals, !.idx = i, !.data = value,
                            !.retBool = r.ret, !.es = r.es, !.reads = r.reads]
             /\ fieldVals' = [fieldVals EXCEPT ![i] = r.val]
             /\ dirty' = (dirty \/ r.es = "Success")
    /\ UNCHANGED <<inst, NDEBUG, lastRefresh, trav, others>>

\* ------------------------------------------- encode / decode specification

Init ==
    /\ inst \in Instantiations
    /\ NDEBUG \in BOOLEAN
    /\ fieldVals = DefaultVals
    /\ dirty = FALSE
    /\ lastRefresh = "none"
    /\ call = NoCall
    /\ trav = NoTrav
    /\ NoOthers

Next ==
    \/ Encode
    \/ Decode
    \/ SetValue

Spec == Init /\ [][Next]_vars

\* The instantiation MessageBase.h selects, in a build with assert() on.
InitActual ==
    /\ inst = ActualInstantiation
    /\ NDEBUG = FALSE
    /\ fieldVals = DefaultVals
    /\ dirty = FALSE
    /\ lastRefresh = "none"
    /\ call = NoCall
    /\ trav = NoTrav
    /\ NoOthers

\* ------------------------------------------ refresh / valid specification

NextValid ==
    \/ Refresh
    \/ IsValid
    \/ SetValue

SpecValid == InitActual /\ [][NextValid]_vars

\* ------------------------------------------------- adapter specification

NextAdapter ==
    \/ SetValue
    \/ GetSerialisedValue
    \/ SetSerialisedValue

SpecAdapter == InitActual /\ [][NextAdapter]_vars

\* ------------------------------------------- traversal specification

Funcs == {"Sub", "Horner", "Concat"}

InitialValues(fn) ==
    IF fn = "Concat"
    THEN {[val |-> <<>>, n |-> 0], [val |-> <<[type |-> "u16", val |-> 3]>>, n |-> 0]}
    ELSE {[val |-> 0, n |-> 0], [val |-> 7, n |-> 0]}

InitTuple ==
    /\ inst = ActualInstantiation
    /\ NDEBUG = FALSE
    /\ fieldVals = DefaultVals
    /\ dirty = FALSE
    /\ lastRefresh = "none"
    /\ call = NoCall
    /\ NoOthers
    /\ \E t \in Tuples, fn \in Funcs : \E v \in InitialValues(fn) :
         trav = [op |-> "none", in |-> t, fn |-> fn, init |-> v,
                 calls |-> <<>>, out |-> v]

ForEach ==
    /\ trav' = [trav EXCEPT !.op = "tupleForEach",
                   !.calls = tupleForEach(trav.in, <<>>), !.out = trav.init]
    /\ UNCHANGED <<inst, NDEBUG, fieldVals, dirty, lastRefresh, call, others>>

ForEachWithIdx ==
    /\ trav' = [trav EXCEPT !.op = "tupleForEachWithIdx",
                   !.calls = tupleForEachWithIdx(trav.in, <<>>), !.out = trav.init]
    /\ UNCHANGED <<inst, NDEBUG, fieldVals, dirty, lastRefresh, call, others>>

Accumulate ==
    /\ trav' = [trav EXCEPT !.op = "tupleAccumulate", !.calls = <<>>,
                   !.out = tupleAccumulate(trav.in, trav.init, [id |-> trav.fn])]
    /\ UNCHANGED <<inst, NDEBUG, fieldVals, dirty, lastRefresh, call, others>>

NextTuple ==
    \/ ForEach
    \/ ForEachWithIdx
    \/ Accumulate

SpecTuple == InitTuple /\ [][NextTuple]_vars

\* ------------------------------------------------------------------ claims

AllSuccess(log) == \A k \in 1..Len(log) : log[k] = "Success"

\* C1 (as stated): whenever a field write of an encode call reports a status
\* other than Success, the call hands back no bytes at all, in particular not
\* the bytes of the fields written before the failing one.
C1_EncodeAllOrNothing ==
    (call.op = "encode" /\ ~AllSuccess(call.log)) => call.retData = <<>>

\* C4 (as stated): every encode call invokes refresh exactly once, and does
\* so before the first field is written.
C4_RefreshPrecedesWrites ==
    (call.op = "encode" /\ call.returned) =>
        /\ Len(call.events) >= 1
        /\ call.events[1].ev = "refresh"
        /\ Cardinality({k \in 1..Len(call.events) : call.events[k].ev = "refresh"}) = 1

\* C4 (amended): an encode call never invokes refresh and leaves the fields
\* as they are; it writes the fields in declared order, one write per field
\* up to and including the first one that fails, every field when none fails.
C4_EncodeWritesInOrderWithoutRefresh ==
    (call.op = "encode" /\ call.returned) =>
        /\ \A k \in 1..Len(call.events) :
             call.events[k] = [ev |-> "write", idx |-> k]
        /\ Len(call.events) = Len(call.log)
        /\ Len(call.events) <= NumFields
        /\ AllSuccess(SubSeq(call.log, 1, Len(call.log) - 1))
        /\ (call.es = "Success" <=> (Len(call.log) = NumFields /\ AllSuccess(call.log)))
        /\ fieldVals = call.prevVals

C4_Witness ==
    /\ call.op = "encode"
    /\ call.returned
    /\ call.es = "Success"
    /\ Len(call.events) = NumFields
    /\ \E i \in 1..NumFields : fieldVals[i] # 0

\* C5: a decode call that returns, returns true exactly when every field was
\* read, in declared order, with status Success; one failing field makes it
\* return false.
C5_DecodeTrueIffAllFieldsRead ==
    (call.op = "decode" /\ call.returned) =>
        (call.retBool <=> (Len(call.log) = NumFields /\ AllSuccess(call.log)))

C5_Witness ==
    /\ call.op = "decode"
    /\ call.returned
    /\ ~call.retBool
    /\ Len(call.log) >= 2
    /\ call.log[1] = "Success"
    /\ call.log[Len(call.log)] = "InvalidMsgData"

\* C6 (as stated): isValid never returns true when the most recent refresh
\* returned true or a field was assigned since the last refresh.
C6_ValidOnlyAfterCleanRefresh ==
    (call.op = "isValid" /\ call.retBool) => (lastRefresh # "changed" /\ ~dirty)

\* C6 (amended): isValid returns true exactly when every field reports
\* valid, whatever the last refresh returned and whether or not a field was
\* assigned since.
C6_ValidIffEveryFieldValid ==
    call.op = "isValid" =>
        (call.retBool <=> \A i \in 1..NumFields : FieldValid(i, fieldVals[i]))

C6_Witness ==
    /\ call.op = "isValid"
    /\ call.retBool
    /\ lastRefresh = "changed"
    /\ dirty

\* C2: setSerialisedValue given a non-empty byte sequence the field's read
\* rejects returns false and leaves the field (and every other field) with
\* the value it had before the call.
C2_FailedDecodeKeepsValue ==
    (call.op = "setSerialisedValue" /\ call.data # <<>> /\ call.es # "Success") =>
        /\ call.retBool = FALSE
        /\ call.reads = 1
        /\ fieldVals = call.prevVals

C2_Witness ==
    /\ call.op = "setSerialisedValue"
    /\ call.data # <<>>
    /\ call.es = "NotEnoughData"
    /\ Len(call.data) < FieldLength(call.idx)
    /\ fieldVals[call.idx] # 0

\* C3: setSerialisedValue given the empty byte sequence returns false, never
\* invokes the field's read and leaves every field value as it was.
C3_EmptyBytesRejected ==
    (call.op = "setSerialisedValue" /\ call.data = <<>>) =>
        /\ call.retBool = FALSE
        /\ call.reads = 0
        /\ fieldVals = call.prevVals

C3_Witness ==
    /\ call.op = "setSerialisedValue"
    /\ call.data = <<>>
    /\ fieldVals[call.idx] # 0

\* C10: getSerialisedValue returns field.length() bytes, the very bytes the
\* field's write emits for its current value (they read back as that value),
\* and leaves the field values as they were.
C10_SerialisedValueIsFieldWrite ==
    call.op = "getSerialisedValue" =>
        /\ Len(call.retData) = FieldLength(call.idx)
        /\ call.retData = FieldWrite(call.idx, fieldVals[call.idx], DataSeqMaxSize).out
        /\ FromBytes(call.retData) = fieldVals[call.idx]
        /\ fieldVals = call.prevVals

C10_Witness ==
    /\ call.op = "getSerialisedValue"
    /\ FieldLength(call.idx) = 2
    /\ call.retData[1] # call.retData[2]

\* C7: tupleForEach over a K-element tuple invokes the callback K times, the
\* i-th invocation on element i; no invocation when K = 0.
C7_ForEachOncePerElementInOrder ==
    trav.op = "tupleForEach" =>
        /\ Len(trav.calls) = Len(trav.in)
        /\ \A i \in 1..Len(trav.in) : trav.calls[i] = trav.in[i]

C7_Witness ==
    /\ trav.op = "tupleForEach"
    /\ Len(trav.in) = MaxTupleSize
    /\ trav.in[1] # trav.in[MaxTupleSize]
    /\ Len(trav.calls) = MaxTupleSize

\* C9: tupleForEachWithIdx invokes the callback once per element in declared
\* order and hands it, with element i, the zero-based position i: the indices
\* passed are 0, 1, ..., K-1.
C9_ForEachWithIdxPassesPosition ==
    trav.op = "tupleForEachWithIdx" =>
        /\ Len(trav.calls) = Len(trav.in)
        /\ \A i \in 1..Len(trav.in) :
             trav.calls[i] = [elem |-> trav.in[i], idx |-> i - 1]

C9_Witness ==
    /\ trav.op = "tupleForEachWithIdx"
    /\ Len(trav.in) = MaxTupleSize
    /\ trav.in[1] # trav.in[MaxTupleSize]
    /\ trav.calls[MaxTupleSize].idx = MaxTupleSize - 1

\* The left fold fn(...fn(fn(v, e0), e1)..., e(K-1)), unrolled from its last
\* application.
RECURSIVE LeftFold(_, _, _)
LeftFold(id, v, seq) ==
    IF seq = <<>> THEN v
    ELSE FuncValue(id, LeftFold(id, v, SubSeq(seq, 1, Len(seq) - 1)), seq[Len(seq)])

\* C8: tupleAccumulate returns the left fold of fn over the tuple from the
\* initial value, having applied fn once per element; the initial value
\* itself for the empty tuple.
C8_AccumulateIsLeftFold ==
    trav.op = "tupleAccumulate" =>
        /\ trav.out.val = LeftFold(trav.fn, trav.init.val, trav.in)
        /\ trav.out.n = Len(trav.in)
        /\ (trav.in = <<>> => trav.out = trav.init)

C8_Witness ==
    /\ trav.op = "tupleAccumulate"
    /\ trav.fn = "Horner"
    /\ Len(trav.in) = MaxTupleSize
    /\ trav.in[1].type # trav.in[MaxTupleSize].type
    /\ trav.out.n = MaxTupleSize

\* ------------------------------------------------------ BitmaskValueBase.h

\* sizeof(long long unsigned).
SizeofLongLongUnsigned == 8

\* The N of the FixedLength<N> options in use: the sizes for which an
\* unsigned integer type of exactly N bytes exists.
FixedLengths == {1, 2, 4, 8}

\* The options a bitmask field can be declared with.  T names the type
\* argument of DefaultValueInitialiser<T> / ContentsValidator<T>.
OptionPool ==
    {[kind |-> "FixedLength", Value |-> n, Type |-> "none"] : n \in FixedLengths}
    \cup {[kind |-> "BitIndexingStartsFromMsb", Value |-> 0, Type |-> "none"],
          [kind |-> "DefaultValueInitialiser", Value |-> 0, Type |-> "Initialiser"],
          [kind |-> "ContentsValidator", Value |-> 0, Type |-> "Validator"]}

\* Option lists: no option is listed twice (two FixedLength<N> of different N
\* are two options).
OptionLists ==
    {o \in SeqsUpTo(OptionPool, MaxOptions) :
        \A i, j \in 1..Len(o) : i # j => o[i] # o[j]}

\* comms::util::SizeToType<TSize, TSigned>::Type.
SizeToType(size, signed) == [size |-> size, signed |-> signed]

\* BitmaskValueBase<TField>: the members of the class without options.
BitmaskValueBase_NoOptions ==
    [ValueType |-> [size |-> SizeofLongLongUnsigned, signed |-> FALSE],
     SerialisedLen |-> SizeofLongLongUnsigned,
     BitZeroIsMsb |-> FALSE,
     HasCustomInitialiser |-> FALSE,
     HasCustomValidator |-> FALSE,
     DefaultValueInitialiser |-> "none",
     ContentsValidator |-> "none"]

Specialise_CopiedFlag(Option, Base) ==
    CASE Option.kind = "FixedLength" ->
            [Base EXCEPT !.SerialisedLen = Option.Value,
                         !.ValueType = SizeToType(Option.Value, FALSE)]
      [] Option.kind = "BitIndexingStartsFromMsb" ->
            [Base EXCEPT !.BitZeroIsMsb = TRUE]
      [] Option.kind = "DefaultValueInitialiser" ->
            [Base EXCEPT !.DefaultValueInitialiser = Option.Type,
                         !.HasCustomValidator = TRUE]
      [] Option.kind = "ContentsValidator" ->
            [Base EXCEPT !.ContentsValidator = Option.Type,
                         !.HasCustomValidator = TRUE]

\* The members a partial specialisation BitmaskValueBase<TField, Option,
\* TOptions...> has: those it declares, and those of its Base otherwise.
Specialise(Option, Base) ==
    CASE Option.kind = "FixedLength" ->
            [Base EXCEPT !.SerialisedLen = Option.Value,
                         !.ValueType = SizeToType(Option.Value, FALSE)]
      [] Option.kind = "BitIndexingStartsFromMsb" ->
            [Base EXCEPT !.BitZeroIsMsb = TRUE]
      [] Option.kind = "DefaultValueInitialiser" ->
            [Base EXCEPT !.DefaultValueInitialiser = Option.Type,
                         !.HasCustomInitialiser = TRUE]
      [] Option.kind = "ContentsValidator" ->
            [Base EXCEPT !.ContentsValidator = Option.Type,
                         !.HasCustomValidator = TRUE]

BitmaskValueBase_DropsRest(TOptions) ==
    IF TOptions = <<>> THEN BitmaskValueBase_NoOptions
    ELSE Specialise(Head(TOptions), BitmaskValueBase_NoOptions)

\* BitmaskValueBase<TField, TOptions...>: the first option's specialisation
\* on top of the class of the remaining options.
RECURSIVE BitmaskValueBase(_)
BitmaskValueBase(TOptions) ==
    IF TOptions = <<>> THEN BitmaskValueBase_NoOptions
    ELSE LET Base == BitmaskValueBase(Tail(TOptions))
         IN  Specialise(Head(TOptions), Base)

\* Values a bitmask field is given.
BitmaskValues == {0, 1, 129, 33024}

\* Whether v is a value of the unsigned type of the given size.
FitsValueType(v, type) == IF type.size >= 4 THEN TRUE ELSE v < Pow256(type.size)

\* Big-endian serialisation of v into len bytes, low byte last.
RECURSIVE Serialise(_, _)
Serialise(v, len) ==
    IF len = 0 THEN <<>> ELSE Append(Serialise(v \div 256, len - 1), v % 256)

\* BitmaskValue::length() and BitmaskValue::write() of a field whose base is cfg.
BitmaskValue_length(cfg) == cfg.SerialisedLen

BitmaskValue_write(cfg, v) == Serialise(v, cfg.SerialisedLen)

\* A bitmask field is declared with an option list, drawn here.
InitOptions ==
    /\ inst = ActualInstantiation
    /\ NDEBUG = FALSE
    /\ fieldVals = DefaultVals
    /\ dirty = FALSE
    /\ lastRefresh = "none"
    /\ call = NoCall
    /\ trav = NoTrav
    /\ \E o \in OptionLists : bitmask = [op |-> "none", opts |-> o]
    /\ wrapper = NoWrapper
    /\ plugin = NoPlugin
    /\ proto = NoProto

msgVars == <<inst, NDEBUG, fieldVals, dirty, lastRefresh, call, trav>>

\* The field's class is instantiated: its options are resolved.
DefineBitmask ==
    /\ bitmask.op = "none"
    /\ bitmask' = [op |-> "define", opts |-> bitmask.opts,
                   cfg |-> BitmaskValueBase(bitmask.opts)]
    /\ UNCHANGED <<msgVars, wrapper, plugin, proto>>

\* A field of the class is given a value of its ValueType and written.
WriteBitmask ==
    /\ bitmask.op # "none"
    /\ \E v \in BitmaskValues :
         /\ FitsValueType(v, bitmask.cfg.ValueType)
         /\ bitmask' = [op |-> "write", opts |-> bitmask.opts, cfg |-> bitmask.cfg,
                        value |-> v,
                        length |-> BitmaskValue_length(bitmask.cfg),
                        out |-> BitmaskValue_write(bitmask.cfg, v)]
    /\ UNCHANGED <<msgVars, wrapper, plugin, proto>>

NextOptions ==
    \/ DefineBitmask
    \/ WriteBitmask

SpecOptions == InitOptions /\ [][NextOptions]_vars

\* ----------------------------------------------------- claims on the options

DistinctKinds(o) == \A i, j \in 1..Len(o) : i # j => o[i].kind # o[j].kind

IndexPermutations(n) == {p \in [1..n -> 1..n] : \A i, j \in 1..n : i # j => p[i] # p[j]}

\* The entries of a resolved configuration the claims speak of.
Resolved(cfg) ==
    <<cfg.SerialisedLen, cfg.ValueType, cfg.BitZeroIsMsb,
      cfg.HasCustomInitialiser, cfg.HasCustomValidator>>

\* C11: for an option list with one option of each kind at most, every
\* permutation of the list resolves to the same SerialisedLen, ValueType,
\* BitZeroIsMsb, HasCustomInitialiser and HasCustomValidator.
C11_OptionOrderIrrelevant ==
    (bitmask.op = "define" /\ DistinctKinds(bitmask.opts)) =>
        \A p \in IndexPermutations(Len(bitmask.opts)) :
            Resolved(BitmaskValueBase([i \in 1..Len(bitmask.opts) |-> bitmask.opts[p[i]]]))
                = Resolved(bitmask.cfg)

C11_Witness ==
    /\ bitmask.op = "define"
    /\ Len(bitmask.opts) = 4
    /\ DistinctKinds(bitmask.opts)
    /\ bitmask.opts[1].kind = "ContentsValidator"
    /\ bitmask.opts[4].kind = "FixedLength"
    /\ bitmask.cfg.SerialisedLen = 2
    /\ bitmask.cfg.BitZeroIsMsb

FixedLengthPositions(o) == {i \in 1..Len(o) : o[i].kind = "FixedLength"}

\* C12: a bitmask field declared with the FixedLength<N> option, at whatever
\* position of its option list, has SerialisedLen N and the unsigned N-byte
\* value type; its length is N for every value it holds and its write emits
\* exactly N bytes.
C12_FixedLengthIsSerialisedLen ==
    \A i \in 1..Len(bitmask.opts) :
        (bitmask.op # "none" /\ FixedLengthPositions(bitmask.opts) = {i}) =>
            /\ bitmask.cfg.SerialisedLen = bitmask.opts[i].Value
            /\ bitmask.cfg.ValueType = [size |-> bitmask.opts[i].Value, signed |-> FALSE]
            /\ bitmask.op = "write" =>
                 /\ bitmask.length = bitmask.opts[i].Value
                 /\ Len(bitmask.out) = bitmask.opts[i].Value

C12_Witness ==
    /\ bitmask.op = "write"
    /\ Len(bitmask.opts) = 3
    /\ FixedLengthPositions(bitmask.opts) = {3}
    /\ bitmask.opts[3].Value = 2
    /\ bitmask.value = 33024
    /\ bitmask.out = <<129, 0>>

\* The configuration entries an option of the given kind declares.
OwnEntries(kind) ==
    CASE kind = "FixedLength" -> {"SerialisedLen", "ValueType"}
      [] kind = "BitIndexingStartsFromMsb" -> {"BitZeroIsMsb"}
      [] kind = "DefaultValueInitialiser" ->
            {"HasCustomInitialiser", "DefaultValueInitialiser"}
      [] kind = "ContentsValidator" -> {"HasCustomValidator", "ContentsValidator"}

\* C13: without options a field has serialised length 8 (a 64-bit unsigned
\* value), LSB-first bit indexing, no custom initialiser and no custom
\* validator; a single option changes its own entries only and leaves every
\* other entry as it is without options.
C13_BaselineAndOwnEntriesOnly ==
    /\ (bitmask.op = "define" /\ bitmask.opts = <<>>) =>
           /\ bitmask.cfg.SerialisedLen = 8
           /\ bitmask.cfg.ValueType = [size |-> 8, signed |-> FALSE]
           /\ bitmask.cfg.BitZeroIsMsb = FALSE
           /\ bitmask.cfg.HasCustomInitialiser = FALSE
           /\ bitmask.cfg.HasCustomValidator = FALSE
    /\ (bitmask.op = "define" /\ Len(bitmask.opts) = 1) =>
           /\ \A e \in DOMAIN bitmask.cfg \ OwnEntries(bitmask.opts[1].kind) :
                bitmask.cfg[e] = BitmaskValueBase_NoOptions[e]
           /\ bitmask.opts[1].kind = "BitIndexingStartsFromMsb" => bitmask.cfg.BitZeroIsMsb
           /\ bitmask.opts[1].kind = "DefaultValueInitialiser" =>
                bitmask.cfg.HasCustomInitialiser
           /\ bitmask.opts[1].kind = "ContentsValidator" => bitmask.cfg.HasCustomValidator
           /\ bitmask.opts[1].kind = "FixedLength" =>
                bitmask.cfg.SerialisedLen = bitmask.opts[1].Value

C13_Witness ==
    /\ bitmask.op = "define"
    /\ Len(bitmask.opts) = 1
    /\ bitmask.opts[1].kind = "DefaultValueInitialiser"
    /\ bitmask.cfg.HasCustomInitialiser
    /\ bitmask.cfg.SerialisedLen = 8

\* -------------------------------------------------------- BitfieldWrapper.h

\* sizeof of the integer types a field's ValueType can be, the 128-bit
\* extended integer types included.
ValueTypeSizes == {1, 2, 4, 8, 16}

\* The field types BitfieldWrapperT can be instantiated with: whether
\* comms::field::isBitfield<Field>() holds, and the field's ValueType.
FieldTypes == [isBitfield : BOOLEAN, size : ValueTypeSizes, signed : BOOLEAN]

\* BitfieldWrapper's UnderlyingType: long long unsigned.
UnderlyingType == [size |-> SizeofLongLongUnsigned, signed |-> FALSE]

BitfieldWrapperT_Accepts_NoWidthAssert(Field) ==
    /\ Field.isBitfield
    /\ Field.signed \/ Field.size < UnderlyingType.size

BitfieldWrapperT_Accepts_SameSizeUnsigned(Field) ==
    /\ Field.isBitfield
    /\ Field.size <= UnderlyingType.size
    /\ Field.signed \/ Field.size <= UnderlyingType.size

\* Whether BitfieldWrapperT<TField> compiles: its three static_asserts hold.
BitfieldWrapperT_Accepts(Field) ==
    /\ Field.isBitfield
    /\ Field.size <= UnderlyingType.size
    /\ Field.signed \/ Field.size < UnderlyingType.size

\* Values a wrapped field holds or is given.
WrapperValues == {0, 1, 129, 255, 33024}

\* static_cast of a non-negative n to a type of the given size.
CastTo(n, size) == IF size >= 4 THEN n ELSE n % Pow256(size)

\* BitfieldWrapperT<Field> is instantiated for some field type.
InstantiateWrapper ==
    /\ wrapper.op = "none"
    /\ \E Field \in FieldTypes :
         wrapper' = [op |-> "instantiate", Field |-> Field,
                     accepted |-> BitfieldWrapperT_Accepts(Field)]
    /\ UNCHANGED <<msgVars, bitmask, plugin, proto>>

\* makeBitfieldWrapper(field): an adapter referring to a field of the type.
MakeBitfieldWrapper ==
    /\ wrapper.op = "instantiate"
    /\ wrapper.accepted
    /\ \E v \in WrapperValues :
         /\ CastTo(v, wrapper.Field.size) = v
         /\ wrapper' = [op |-> "make", Field |-> wrapper.Field, accepted |-> TRUE,
                        value |-> v, arg |-> 0, ret |-> 0]
    /\ UNCHANGED <<msgVars, bitmask, plugin, proto>>

\* The adapter's numeric read accessor.
WrapperGetValue ==
    /\ wrapper.op \in {"make", "getValue", "setValue"}
    /\ wrapper' = [wrapper EXCEPT !.op = "getValue", !.arg = 0,
                                  !.ret = CastTo(wrapper.value, UnderlyingType.size)]
    /\ UNCHANGED <<msgVars, bitmask, plugin, proto>>

\* The adapter's numeric write accessor; no refresh is implied.
WrapperSetValue ==
    /\ wrapper.op \in {"make", "getValue", "setValue"}
    /\ \E n \in WrapperValues :
         wrapper' = [wrapper EXCEPT !.op = "setValue", !.arg = n, !.ret = 0,
                                    !.value = CastTo(n, wrapper.Field.size)]
    /\ UNCHANGED <<msgVars, bitmask, plugin, proto>>

NextWrapper ==
    \/ InstantiateWrapper
    \/ MakeBitfieldWrapper
    \/ WrapperGetValue
    \/ WrapperSetValue

SpecWrapper == InitActual /\ [][NextWrapper]_vars

\* C14: instantiating BitfieldWrapperT over a field whose value type is wider
\* than the adapter's long long unsigned representation is rejected at
\* compile time, and no adapter refers to a field wider than the
\* representation.
C14_WiderFieldRejected ==
    /\ (wrapper.op = "instantiate" /\ wrapper.Field.size > UnderlyingType.size) =>
           ~wrapper.accepted
    /\ wrapper.op \in {"make", "getValue", "setValue"} =>
           wrapper.Field.size <= UnderlyingType.size

C14_Witness ==
    /\ wrapper.op = "instantiate"
    /\ wrapper.Field = [isBitfield |-> TRUE, size |-> 16, signed |-> TRUE]
    /\ ~wrapper.accepted

\* C17 (as stated): BitfieldWrapperT accepts a field exactly when its value
\* type is strictly narrower than the underlying type, or of the same size
\* and signed.
C17_AcceptedIffNarrowerOrSigned ==
    wrapper.op = "instantiate" =>
        (wrapper.accepted <=>
            \/ wrapper.Field.size < UnderlyingType.size
            \/ wrapper.Field.size = UnderlyingType.size /\ wrapper.Field.signed)

\* C17 (amended): BitfieldWrapperT accepts a field exactly when it is of
\* Bitfield type and its value type is strictly narrower than the underlying
\* type, or of the same size and signed; an unsigned value type of the size
\* of the underlying type is rejected.
C17_AcceptedIffBitfieldAndNarrowerOrSigned ==
    wrapper.op = "instantiate" =>
        /\ wrapper.accepted <=>
            /\ wrapper.Field.isBitfield
            /\ \/ wrapper.Field.size < UnderlyingType.size
               \/ wrapper.Field.size = UnderlyingType.size /\ wrapper.Field.signed
        /\ (wrapper.Field.size = UnderlyingType.size /\ ~wrapper.Field.signed) =>
               ~wrapper.accepted

C17_Witness ==
    /\ wrapper.op = "instantiate"
    /\ wrapper.Field = [isBitfield |-> TRUE, size |-> 8, signed |-> FALSE]
    /\ ~wrapper.accepted

\* ---------------------------------------------------------------- Plugin.cpp

\* The control interfaces of the application; 0 stands for nullptr.
Interfaces == {1, 2, 3}

\* Configuration maps handed to a plugin.
Configs == {"{}", "{a}", "{b}", "{a,b}"}

isApplied(p) == p.m_ctrlInterface # 0

apply_ImplBeforeStore(p, controlInterface, ndebug) ==
    IF ~ndebug /\ isApplied(p)
    THEN [p EXCEPT !.op = "apply", !.arg = controlInterface, !.ret = 0,
                   !.wasApplied = TRUE, !.aborted = TRUE]
    ELSE [p EXCEPT !.op = "apply", !.arg = controlInterface, !.ret = 0,
                   !.wasApplied = isApplied(p),
                   !.applyImplSaw = isApplied(p),
                   !.m_ctrlInterface = controlInterface,
                   !.stored = controlInterface]

\* assert(!isApplied()); m_ctrlInterface = &controlInterface; applyImpl();
\* applyImplSaw is what isApplied() returns while applyImpl() runs.
apply(p, controlInterface, ndebug) ==
    IF ~ndebug /\ isApplied(p)
    THEN [p EXCEPT !.op = "apply", !.arg = controlInterface, !.ret = 0,
                   !.wasApplied = TRUE, !.aborted = TRUE]
    ELSE LET q == [p EXCEPT !.m_ctrlInterface = controlInterface,
                            !.stored = controlInterface]
         IN  [q EXCEPT !.op = "apply", !.arg = controlInterface, !.ret = 0,
                       !.wasApplied = isApplied(p),
                       !.applyImplSaw = isApplied(q)]

\* getCurrentConfigImpl: the default implementation leaves the map alone.
getCurrentConfigImpl(config) == config

\* getCurrentConfig(config): the caller's map after getCurrentConfigImpl.
getCurrentConfig_Into(p, config) ==
    [p EXCEPT !.op = "getCurrentConfig", !.arg = config,
              !.ret = getCurrentConfigImpl(config), !.wasApplied = isApplied(p)]

\* getCurrentConfig(): a fresh map filled by getCurrentConfig(config).
getCurrentConfig(p) ==
    [getCurrentConfig_Into(p, "{}") EXCEPT !.arg = 0]

\* reconfigure(config): the default reconfigureImpl ignores the map.
reconfigure(p, config) ==
    [p EXCEPT !.op = "reconfigure", !.arg = config, !.ret = 0,
              !.wasApplied = isApplied(p)]

\* getConfigWidget(): the default getConfigWidgetImpl returns an empty
\* WidgetPtr.
getConfigWidget(p) ==
    [p EXCEPT !.op = "getConfigWidget", !.arg = 0, !.ret = "WidgetPtr()",
              !.wasApplied = isApplied(p)]

InitPlugin ==
    /\ inst = ActualInstantiation
    /\ NDEBUG \in BOOLEAN
    /\ fieldVals = DefaultVals
    /\ dirty = FALSE
    /\ lastRefresh = "none"
    /\ call = NoCall
    /\ trav = NoTrav
    /\ NoOthers

Apply ==
    /\ ~plugin.aborted
    /\ \E ci \in Interfaces : plugin' = apply(plugin, ci, NDEBUG)
    /\ UNCHANGED <<msgVars, bitmask, wrapper, proto>>

IsApplied ==
    /\ ~plugin.aborted
    /\ plugin' = [plugin EXCEPT !.op = "isApplied", !.arg = 0,
                                !.ret = isApplied(plugin),
                                !.wasApplied = isApplied(plugin)]
    /\ UNCHANGED <<msgVars, bitmask, wrapper, proto>>

GetCurrentConfig ==
    /\ ~plugin.aborted
    /\ plugin' = getCurrentConfig(plugin)
    /\ UNCHANGED <<msgVars, bitmask, wrapper, proto>>

GetCurrentConfigInto ==
    /\ ~plugin.aborted
    /\ \E config \in Configs : plugin' = getCurrentConfig_Into(plugin, config)
    /\ UNCHANGED <<msgVars, bitmask, wrapper, proto>>

Reconfigure ==
    /\ ~plugin.aborted
    /\ \E config \in Configs : plugin' = reconfigure(plugin, config)
    /\ UNCHANGED <<msgVars, bitmask, wrapper, proto>>

GetConfigWidget ==
    /\ ~plugin.aborted
    /\ plugin' = getConfigWidget(plugin)
    /\ UNCHANGED <<msgVars, bitmask, wrapper, proto>>

\* assert(isApplied()); return *m_ctrlInterface;  With the assert compiled
\* out, dereferencing nullptr is undefined: the call traps or returns any
\* reference.
CtrlInterface ==
    /\ ~plugin.aborted
    /\ IF isApplied(plugin)
       THEN plugin' = [plugin EXCEPT !.op = "ctrlInterface", !.arg = 0,
                                     !.ret = plugin.m_ctrlInterface,
                                     !.wasApplied = TRUE]
       ELSE IF ~NDEBUG
       THEN plugin' = [plugin EXCEPT !.op = "ctrlInterface", !.arg = 0,
                                     !.ret = 0, !.wasApplied = FALSE,
                                     !.aborted = TRUE]
       ELSE \E r \in {0} \cup Interfaces, trap \in BOOLEAN :
              plugin' = [plugin EXCEPT !.op = "ctrlInterface", !.arg = 0,
                                       !.ret = r, !.wasApplied = FALSE,
                                       !.aborted = trap]
    /\ UNCHANGED <<msgVars, bitmask, wrapper, proto>>

NextPlugin ==
    \/ Apply
    \/ IsApplied
    \/ GetCurrentConfig
    \/ GetCurrentConfigInto
    \/ Reconfigure
    \/ GetConfigWidget
    \/ CtrlInterface

SpecPlugin == InitPlugin /\ [][NextPlugin]_vars

\* C16: isApplied() holds exactly when apply() has stored a control
\* interface, and once it holds no getCurrentConfig, reconfigure,
\* getConfigWidget or ctrlInterface call ends it; with asserts enabled apply()
\* on an applied plugin aborts; a completed apply() has stored its argument
\* before applyImpl() ran, so applyImpl() saw isApplied() true; ctrlInterface()
\* on an applied plugin returns the interface passed to apply().
C16_ApplyLifecycle ==
    /\ isApplied(plugin) <=> plugin.stored # 0
    /\ plugin.op = "isApplied" => (plugin.ret <=> plugin.stored # 0)
    /\ (plugin.op = "apply" /\ plugin.wasApplied /\ ~NDEBUG) => plugin.aborted
    /\ (plugin.op = "apply" /\ ~plugin.aborted) =>
           /\ plugin.applyImplSaw
           /\ plugin.m_ctrlInterface = plugin.arg
    /\ (plugin.op \in {"getCurrentConfig", "reconfigure", "getConfigWidget",
                         "ctrlInterface"} /\ plugin.wasApplied) =>
           /\ isApplied(plugin)
           /\ ~plugin.aborted
    /\ (plugin.op = "ctrlInterface" /\ plugin.wasApplied) =>
           plugin.ret = plugin.stored

C16_Witness ==
    /\ plugin.op = "ctrlInterface"
    /\ plugin.wasApplied
    /\ plugin.applyImplSaw
    /\ plugin.ret = 2
    /\ ~NDEBUG

\* ------------------------------------------------------ cc_plugin/Protocol.h

\* The Sync layer's pattern, 0xAB.
Sync == 171

\* Message ids the Id layer recognises.
Ids == {5}

\* Payload bytes of the application messages.
PayloadBytes == {1}

Payloads == SeqsUpTo(PayloadBytes, MaxPayload)

RECURSIVE SumBytes(_)
SumBytes(bytes) ==
    IF bytes = <<>> THEN 0 ELSE Head(bytes) + SumBytes(Tail(bytes))

\* The Length layer's field: two bytes, big-endian, counting the payload.
LengthField(n) == <<n \div 256, n % 256>>

\* The Checksum layer's field: sum of Id, Length and Payload mod 256.
Checksum(bytes) == SumBytes(bytes) % 256

\* Protocol.write: the message encoded through the whole Stack.
Frame(id, payload) ==
    LET summed == <<id>> \o LengthField(Len(payload)) \o payload
    IN  <<Sync>> \o summed \o <<Checksum(summed)>>

Frames == {Frame(id, payload) : id \in Ids, payload \in Payloads}

HeaderLen == Len(<<Sync>>) + Len(<<5>>) + Len(LengthField(0))

\* The Stack's decode of one frame from the front of buf: each layer reads
\* its own field, then hands the rest to the next layer.
DecodeFrame(buf) ==
    IF Len(buf) < 1 THEN [status |-> "NotEnoughData"]
    ELSE IF buf[1] # Sync THEN [status |-> "ProtocolError"]
    ELSE IF Len(buf) < 2 THEN [status |-> "NotEnoughData"]
    ELSE IF buf[2] \notin Ids THEN [status |-> "ProtocolError"]
    ELSE IF Len(buf) < HeaderLen THEN [status |-> "NotEnoughData"]
    ELSE LET n == buf[3] * 256 + buf[4]
         IN  IF Len(buf) < HeaderLen + n THEN [status |-> "NotEnoughData"]
             ELSE LET payload == SubSeq(buf, HeaderLen + 1, HeaderLen + n)
                  IN  IF payload \notin Payloads
                      THEN [status |-> "InvalidMsgData"]
                      ELSE IF Len(buf) < HeaderLen + n + 1
                      THEN [status |-> "NotEnoughData"]
                      ELSE IF buf[HeaderLen + n + 1] #
                                  Checksum(SubSeq(buf, 2, HeaderLen + n))
                      THEN [status |-> "ProtocolError"]
                      ELSE [status |-> "Success",
                            consumed |-> HeaderLen + n + 1,
                            msg |-> [id |-> buf[2], payload |-> payload]]

RECURSIVE SkipToSync(_)
SkipToSync(buf) ==
    IF buf = <<>> \/ Head(buf) = Sync THEN buf ELSE SkipToSync(Tail(buf))

\* Resynchronisation: the byte that looked like a frame start is discarded,
\* and the bytes after it up to the next candidate frame start.
Resync(buf) == SkipToSync(Tail(buf))

RECURSIVE read_DropsPartial(_, _)
read_DropsPartial(buf, msgs) ==
    LET r == DecodeFrame(buf)
    IN  IF r.status = "Success"
        THEN read_DropsPartial(SubSeq(buf, r.consumed + 1, Len(buf)),
                               Append(msgs, r.msg))
        ELSE IF r.status = "NotEnoughData"
        THEN [buffer |-> <<>>, msgs |-> msgs]
        ELSE read_DropsPartial(Resync(buf), msgs)

\* Protocol.read: decode frames from the front of the buffer until the
\* remaining bytes are not a full frame; those are left for the next call.
RECURSIVE read(_, _)
read(buf, msgs) ==
    LET r == DecodeFrame(buf)
    IN  IF r.status = "Success"
        THEN read(SubSeq(buf, r.consumed + 1, Len(buf)), Append(msgs, r.msg))
        ELSE IF r.status = "NotEnoughData"
        THEN [buffer |-> buf, msgs |-> msgs]
        ELSE read(Resync(buf), msgs)

\* What arrives between two read calls: any run of bytes of a frame, or a
\* byte of line noise.
Chunks ==
    UNION {{SubSeq(f, i, j) : i \in 1..Len(f), j \in 1..Len(f)} : f \in Frames}
        \cup {<<0>>}

\* read(buffer) with the newly arrived bytes appended to the ones retained
\* by the call before; every decoded Message is dispatched to the Handler.
Read ==
    /\ \E chunk \in Chunks :
         LET input == proto.buffer \o chunk
             r == read(input, <<>>)
         IN  /\ chunk # <<>>
             /\ Len(input) <= MaxPayload + HeaderLen + 1
             /\ proto' = [op |-> "read", buffer |-> r.buffer,
                          retained |-> proto.buffer, input |-> input,
                          msgs |-> r.msgs, handled |-> r.msgs]
    /\ UNCHANGED <<msgVars, bitmask, wrapper, plugin>>

NextProtocol ==
    \/ Read

SpecProtocol == InitActual /\ [][NextProtocol]_vars

\* Whether t is f cut short of its full length.
Truncated(t, f) == Len(t) < Len(f) /\ t = SubSeq(f, 1, Len(t))

\* C15: a read whose buffer holds a frame truncated below its declared
\* length returns no Message, dispatches nothing to the Handler and keeps
\* every byte buffered; the next read, given the missing bytes appended,
\* decodes the frame.
C15_TruncatedFrameIsRetained ==
    proto.op = "read" =>
        \A f \in Frames :
            /\ Truncated(proto.input, f) =>
                   /\ proto.msgs = <<>>
                   /\ proto.handled = <<>>
                   /\ proto.buffer = proto.input
            /\ (Truncated(proto.retained, f) /\ proto.input = f) =>
                   /\ proto.msgs = <<[id |-> f[2],
                                      payload |-> SubSeq(f, HeaderLen + 1, Len(f) - 1)]>>
                   /\ proto.handled = proto.msgs
                   /\ proto.buffer = <<>>

C15_Witness ==
    /\ proto.op = "read"
    /\ proto.retained = <<171, 5, 0, 2, 1>>
    /\ proto.input = <<171, 5, 0, 2, 1, 1, 9>>
    /\ proto.msgs = <<[id |-> 5, payload |-> <<1, 1>>]>>
    /\ proto.buffer = <<>>

====
